---- MODULE Spec2Model ----
(***************************************************************************)
(* A model of query_translator/translator.py (Aqqu): the QueryTranslator   *)
(* orchestrator, its scorer swap (set_scorer) and the two pipeline entry   *)
(* points translate_query and translate_and_execute_query.                 *)
(*                                                                         *)
(* The collaborators (parser, entity linker, answer-type identifier,       *)
(* pattern matcher, ranker, candidates' get_result, SPARQL backend) are    *)
(* the environment: every value they return, every backend query they      *)
(* issue and every failure they raise is a nondeterministic choice.        *)
(***************************************************************************)
EXTENDS Integers, Sequences, FiniteSets, TLC

VARIABLES scorer, entity_linker, extender_params, nSet, lastArg, lastOutcome,
          backend, call

vars == <<scorer, entity_linker, extender_params, nSet, lastArg, lastOutcome,
          backend, call>>

translatorVars == <<scorer, entity_linker, extender_params, nSet, lastArg,
                    lastOutcome>>

(***************************************************************************)
(* Bounds of the model.                                                    *)
(***************************************************************************)
MaxSetScorerCalls == 3
MaxEntities == 1
MaxMatches == 1
MaxTop == 2
MaxQueriesPerCall == 1

(***************************************************************************)
(* Scorers and their parameters.  A scorer's parameters name the entity    *)
(* linker class to use and the relation oracle.                            *)
(***************************************************************************)
Scorers == {"s1", "s2", "s3", "s4"}

LinkerClasses == {"LinkerA", "LinkerB"}

Params(s) ==
    [owner |-> s,
     entity_linker_class |-> IF s \in {"s3", "s4"} THEN "LinkerB" ELSE "LinkerA",
     relation_oracle |-> IF s \in {"s2", "s4"} THEN "oracle" ELSE "None"]

(* A variant that rebuilds the linker on every call.                       *)
NeedsRebuildAlways(linker, params) == TRUE

(* type(self.entity_linker) != params.entity_linker_class (line 84).       *)
NeedsRebuild(linker, params) == linker.type # params.entity_linker_class

(* params.entity_linker_class.init_from_config(params, self.entity_index): *)
(* a new object (identity: the number of the call that built it).          *)
NewLinker(params, n) == [id |-> n, type |-> params.entity_linker_class]

(***************************************************************************)
(* set_scorer(s), returning normally.                                      *)
(***************************************************************************)
SetScorer(s) ==
    /\ nSet < MaxSetScorerCalls
    /\ \A r \in DOMAIN call : call[r].pc \in {"idle", "done", "failed"}
    /\ nSet' = nSet + 1
    /\ lastArg' = s
    /\ lastOutcome' = "ok"
    /\ scorer' = s
    /\ LET params == Params(s) IN
         /\ entity_linker' = IF NeedsRebuild(entity_linker, params)
                               THEN NewLinker(params, nSet + 1)
                               ELSE entity_linker
         /\ extender_params' = params
    /\ UNCHANGED <<backend, call>>

(***************************************************************************)
(* set_scorer(s) when init_from_config raises: the assignment of line 82   *)
(* has happened, lines 85 and 89 have not.                                 *)
(***************************************************************************)
SetScorerRebuildFails(s) ==
    /\ nSet < MaxSetScorerCalls
    /\ \A r \in DOMAIN call : call[r].pc \in {"idle", "done", "failed"}
    /\ NeedsRebuild(entity_linker, Params(s))
    /\ nSet' = nSet + 1
    /\ lastArg' = s
    /\ lastOutcome' = "raised"
    /\ scorer' = s
    /\ UNCHANGED <<entity_linker, extender_params, backend, call>>

(* get_scorer() *)
get_scorer == scorer

(***************************************************************************)
(* Helpers.                                                                *)
(***************************************************************************)
Min(a, b) == IF a < b THEN a ELSE b

Reverse(s) == [i \in 1..Len(s) |-> s[Len(s) + 1 - i]]

RECURSIVE SumSeq(_)
SumSeq(s) == IF s = <<>> THEN 0 ELSE Head(s) + SumSeq(Tail(s))

(***************************************************************************)
(* The callers of translate_and_execute_query.                             *)
(***************************************************************************)
Reqs == {1, 2}

NoError == [op |-> "None", at |-> 0]

(* The locals of one translate_and_execute_query activation, the Query it  *)
(* builds, the log of what each get_result call returned (fetched), and    *)
(* (own) the backend queries and time this activation itself caused in     *)
(* each phase.                                                             *)
IdleFrame ==
    [pc |-> "idle", n_top |-> 0,
     assigned |-> <<>>, invoked |-> <<>>,
     identified_entities |-> 0, relation_oracle |-> "None",
     ert_matches |-> <<>>, ermrt_matches |-> <<>>, ermrert_matches |-> <<>>,
     query_candidates |-> <<>>, ranked_candidates |-> <<>>,
     idx |-> 1, fetched |-> <<>>,
     translations |-> <<>>, n_total_translations |-> 0,
     num_sparql_queries |-> 0, sparql_query_time |-> 0,
     translation_time |-> 0, avg_query_time |-> 0,
     result_fetch_time |-> 0, avg_result_fetch_time |-> 0,
     error |-> NoError, returned |-> <<>>,
     own |-> [translate |-> 0, rank |-> 0, fetch |-> 0],
     ownTime |-> [translate |-> 0, rank |-> 0, fetch |-> 0]]

Op(name) == [op |-> name, arg |-> <<>>]

(* The backend executes q queries taking t units of time in total.         *)
Executed(b, q, t) ==
    [num_queries_executed |-> b.num_queries_executed + q,
     total_query_time |-> b.total_query_time + t]

(* The time q backend queries can take, each taking one of the durations.  *)
QueryTimes(q, durations) == {q * d : d \in durations}

(***************************************************************************)
(* The inputs of a call and the answers of its collaborators: the limit    *)
(* n_top, the number of identified entities, the number of matches of a    *)
(* template family, the backend queries one matcher or ranker call issues, *)
(* the backend queries one get_result call issues (a candidate's result is *)
(* fetched from the backend: at least one) and the time one backend query  *)
(* takes.                                                                  *)
(***************************************************************************)
OneCaller ==
    [n_top |-> 0..MaxTop, entities |-> 0..MaxEntities,
     matches |-> 0..MaxMatches, queries |-> 0..MaxQueriesPerCall,
     fetch_queries |-> 1..MaxQueriesPerCall, durations |-> {1}]

TwoCallers ==
    [n_top |-> {1}, entities |-> {1},
     matches |-> {1}, queries |-> {0, 1},
     fetch_queries |-> {1}, durations |-> {1}]

(***************************************************************************)
(* Query.__init__ and QueryTranslator.__init__: the state after            *)
(* construction.  The constructor takes the entity linker and the scorer   *)
(* as independent arguments.                                               *)
(***************************************************************************)
Init ==
    /\ scorer \in Scorers
    /\ entity_linker \in [id : {0}, type : LinkerClasses]
    /\ extender_params = Params(scorer)
    /\ nSet = 0
    /\ lastArg = scorer
    /\ lastOutcome = "None"
    /\ backend = [num_queries_executed |-> 0, total_query_time |-> 0]
    /\ call = [r \in Reqs |-> IdleFrame]

(***************************************************************************)
(* QueryTranslator.init_from_config: the default scorer and the entity     *)
(* linker of the class its parameters name.                                *)
(***************************************************************************)
DefaultScorer == "s1"

InitFromConfig ==
    /\ scorer = DefaultScorer
    /\ entity_linker = NewLinker(Params(DefaultScorer), 0)
    /\ extender_params = Params(scorer)
    /\ nSet = 0
    /\ lastArg = scorer
    /\ lastOutcome = "None"
    /\ backend = [num_queries_executed |-> 0, total_query_time |-> 0]
    /\ call = [r \in Reqs |-> IdleFrame]

(***************************************************************************)
(* translate_and_execute_query, lines 152-159: the call and the snapshot   *)
(* of the backend's cumulative counters.                                   *)
(***************************************************************************)
Call(r, in) ==
    /\ call[r].pc = "idle"
    /\ \E n \in in.n_top :
         call' = [call EXCEPT ![r] =
                    [@ EXCEPT !.pc = "parse",
                              !.n_top = n,
                              !.num_sparql_queries = backend.num_queries_executed,
                              !.sparql_query_time = backend.total_query_time]]
    /\ UNCHANGED <<translatorVars, backend>>

(***************************************************************************)
(* parse_and_identify_entities, lines 136-139: parse, create the Query,    *)
(* assign its tokens.                                                      *)
(***************************************************************************)
Parse(r) ==
    /\ call[r].pc = "parse"
    /\ call' = [call EXCEPT ![r] =
                  [@ EXCEPT !.pc = "link",
                            !.invoked = Append(@, Op("nlp")),
                            !.assigned = Append(@, "tokens")]]
    /\ UNCHANGED <<translatorVars, backend>>

(* lines 140-143: the entity linker identifies the entities.               *)
LinkEntities(r, in) ==
    /\ call[r].pc = "link"
    /\ \E n \in in.entities :
         call' = [call EXCEPT ![r] =
                    [@ EXCEPT !.pc = "target",
                              !.invoked = Append(@, Op("identify_entities_in_tokens")),
                              !.identified_entities = n,
                              !.assigned = Append(@, "identified_entities")]]
    /\ UNCHANGED <<translatorVars, backend>>

(* translate_query, line 109: the answer-type identifier sets the Query's  *)
(* target type in place.                                                   *)
IdentifyTarget(r) ==
    /\ call[r].pc = "target"
    /\ call' = [call EXCEPT ![r] =
                  [@ EXCEPT !.pc = "oracle",
                            !.invoked = Append(@, Op("identify_target")),
                            !.assigned = Append(@, "target_type")]]
    /\ UNCHANGED <<translatorVars, backend>>

(* translate_query, line 111.                                              *)
SetRelationOracle(r) ==
    /\ call[r].pc = "oracle"
    /\ call' = [call EXCEPT ![r] =
                  [@ EXCEPT !.pc = "content",
                            !.relation_oracle = Params(scorer).relation_oracle,
                            !.assigned = Append(@, "relation_oracle")]]
    /\ UNCHANGED <<translatorVars, backend>>

(* A variant that starts matching without assigning the content tokens.   *)
SetContentTokensSkipped(r) ==
    /\ call[r].pc = "content"
    /\ call' = [call EXCEPT ![r] =
                  [@ EXCEPT !.pc = "ert",
                            !.invoked = Append(@, Op("get_content_tokens"))]]
    /\ UNCHANGED <<translatorVars, backend>>

(* translate_query, line 113.                                              *)
SetContentTokens(r) ==
    /\ call[r].pc = "content"
    /\ call' = [call EXCEPT ![r] =
                  [@ EXCEPT !.pc = "ert",
                            !.invoked = Append(@, Op("get_content_tokens")),
                            !.assigned = Append(@, "content_tokens")]]
    /\ UNCHANGED <<translatorVars, backend>>

(***************************************************************************)
(* The pattern matcher (QueryPatternMatcher, not part of this file): the   *)
(* matches of one template family are distinct candidates of that family;  *)
(* a query without identified entities has no match in any family.         *)
(***************************************************************************)
Matches(family, k) == [i \in 1..k |-> <<family, i>>]

MatchCounts(entities, matches) == IF entities = 0 THEN {0} ELSE matches

(* One pattern-matching call: it may query the backend and returns the     *)
(* family's matches.                                                       *)
MatchStep(r, in, family, pcNow, pcNext) ==
    /\ call[r].pc = pcNow
    /\ \E k \in MatchCounts(call[r].identified_entities, in.matches),
          q \in in.queries :
         \E t \in QueryTimes(q, in.durations) :
           /\ backend' = Executed(backend, q, t)
           /\ call' = [call EXCEPT ![r] =
                [@ EXCEPT !.pc = pcNext,
                          !.invoked = Append(@, Op(family)),
                          !.ert_matches =
                              IF family = "match_ERT_pattern"
                                THEN Matches("ERT", k) ELSE @,
                          !.ermrt_matches =
                              IF family = "match_ERMRT_pattern"
                                THEN Matches("ERMRT", k) ELSE @,
                          !.ermrert_matches =
                              IF family = "match_ERMRERT_pattern"
                                THEN Matches("ERMRERT", k) ELSE @,
                          !.own.translate = @ + q,
                          !.ownTime.translate = @ + t]]
    /\ UNCHANGED translatorVars

(* translate_query, lines 115-121.                                         *)
MatchERT(r, in) == MatchStep(r, in, "match_ERT_pattern", "ert", "ermrt")

(* translate_query, line 122.                                              *)
MatchERMRT(r, in) == MatchStep(r, in, "match_ERMRT_pattern", "ermrt", "ermrert")

(* translate_query, line 123.                                              *)
MatchERMRERT(r, in) == MatchStep(r, in, "match_ERMRERT_pattern", "ermrert", "concat")

(* A variant with the first two families swapped.                          *)
ConcatSwapped(ert, ermrt, ermrert) == ermrt \o ert \o ermrert

(* translate_query, line 126: the candidate list it returns.               *)
Concat(ert, ermrt, ermrert) == ert \o ermrt \o ermrert

(* A variant without the epsilon.                                          *)
AvgDenominatorNoEpsilon(n) == n * 1000

(* The denominator of an average over n units, n + 0.001, in thousandths.  *)
AvgDenominator(n) == n * 1000 + 1

(* total / (n + 0.001), rounded down.                                      *)
Average(total, n) == (total * 1000) \div AvgDenominator(n)

ZeroDivision(r, at) ==
    [call EXCEPT ![r] = [@ EXCEPT !.pc = "failed",
                                  !.error = [op |-> "ZeroDivisionError", at |-> at]]]

(***************************************************************************)
(* translate_query returns (lines 124-126) and translate_and_execute_query *)
(* computes the translation phase's deltas and average (lines 160-166).    *)
(***************************************************************************)
AfterTranslate(r) ==
    /\ call[r].pc = "concat"
    /\ LET f == call[r]
           time == (backend.total_query_time - f.sparql_query_time) * 1000
           num == backend.num_queries_executed - f.num_sparql_queries
       IN  call' =
             IF AvgDenominator(num) = 0
               THEN ZeroDivision(r, Len(f.invoked))
               ELSE [call EXCEPT ![r] =
                      [@ EXCEPT !.pc = "rank",
                                !.query_candidates =
                                    Concat(f.ert_matches, f.ermrt_matches,
                                           f.ermrert_matches),
                                !.translation_time = time,
                                !.num_sparql_queries = num,
                                !.avg_query_time = Average(time, num)]]
    /\ UNCHANGED <<translatorVars, backend>>

(***************************************************************************)
(* The ranker (not part of this file) returns the candidates in the order  *)
(* of its scores: any order of them may be that order.                     *)
(***************************************************************************)
RankOutcomes(candidates) == {candidates, Reverse(candidates)}

(* translate_and_execute_query, lines 167-174: rank the candidates (the    *)
(* ranker may query the backend), then snapshot the backend's time.        *)
Rank(r, in) ==
    /\ call[r].pc = "rank"
    /\ \E ranked \in RankOutcomes(call[r].query_candidates),
          q \in in.queries :
         \E t \in QueryTimes(q, in.durations) :
           /\ backend' = Executed(backend, q, t)
           /\ call' = [call EXCEPT ![r] =
                [@ EXCEPT !.pc = "fetch",
                          !.invoked = Append(@, Op("rank_query_candidates")),
                          !.ranked_candidates = ranked,
                          !.sparql_query_time = backend'.total_query_time,
                          !.n_total_translations = 0,
                          !.own.rank = @ + q,
                          !.ownTime.rank = @ + t]]
    /\ UNCHANGED translatorVars

(* A variant that keeps one candidate more.                                *)
TruncateOffByOne(ranked, n_top) == SubSeq(ranked, 1, Min(n_top + 1, Len(ranked)))

(* ranked_candidates[:n_top], n_top >= 0 (line 175).                       *)
Truncate(ranked, n_top) == SubSeq(ranked, 1, Min(n_top, Len(ranked)))

(* What get_result can return: no rows (falsy), or a list of rows, here by *)
(* their lengths.                                                          *)
Results == {<<>>, <<2>>}

(* A variant that keeps empty results.                                     *)
IsFalsyNever(query_result) == FALSE

(* not query_result (line 178).                                            *)
IsFalsy(query_result) == query_result = <<>>

(***************************************************************************)
(* One iteration of the loop of lines 175-182.                             *)
(***************************************************************************)
FetchResult(r, in) ==
    /\ call[r].pc = "fetch"
    /\ call[r].idx <= Len(Truncate(call[r].ranked_candidates, call[r].n_top))
    /\ LET f == call[r]
           query_candidate == Truncate(f.ranked_candidates, f.n_top)[f.idx]
       IN \E query_result \in Results, q \in in.fetch_queries :
            \E t \in QueryTimes(q, in.durations) :
              /\ backend' = Executed(backend, q, t)
              /\ call' = [call EXCEPT ![r] =
                   [@ EXCEPT !.idx = @ + 1,
                             !.invoked = Append(@, [op |-> "get_result",
                                                    arg |-> query_candidate]),
                             !.fetched = Append(@,
                                 [query_candidate |-> query_candidate,
                                  query_result_rows |-> query_result]),
                             !.n_total_translations =
                                 IF IsFalsy(query_result)
                                   THEN @ ELSE @ + SumSeq(query_result),
                             !.translations =
                                 IF IsFalsy(query_result)
                                   THEN @
                                   ELSE Append(@,
                                     [query_candidate |-> query_candidate,
                                      query_result_rows |-> query_result]),
                             !.own.fetch = @ + q,
                             !.ownTime.fetch = @ + t]]
    /\ UNCHANGED translatorVars

(***************************************************************************)
(* After the loop, lines 185-191: the fetch phase's time and average, and  *)
(* the return of (parsed_query, translations).                             *)
(***************************************************************************)
Finish(r) ==
    /\ call[r].pc = "fetch"
    /\ call[r].idx > Len(Truncate(call[r].ranked_candidates, call[r].n_top))
    /\ LET f == call[r]
           time == (backend.total_query_time - f.sparql_query_time) * 1000
       IN  call' =
             IF AvgDenominator(Len(f.translations)) = 0
               THEN ZeroDivision(r, Len(f.invoked))
               ELSE [call EXCEPT ![r] =
                      [@ EXCEPT !.pc = "done",
                                !.result_fetch_time = time,
                                !.avg_result_fetch_time =
                                    Average(time, Len(f.translations)),
                                !.returned = <<f.translations>>]]
    /\ UNCHANGED <<translatorVars, backend>>

(***************************************************************************)
(* A collaborator raises.  No statement of the file catches an exception:  *)
(* the call ends there and returns nothing.                                *)
(***************************************************************************)
PendingOp(f) ==
    CASE f.pc = "parse" -> Op("nlp")
      [] f.pc = "link" -> Op("identify_entities_in_tokens")
      [] f.pc = "target" -> Op("identify_target")
      [] f.pc = "content" -> Op("get_content_tokens")
      [] f.pc = "ert" -> Op("match_ERT_pattern")
      [] f.pc = "ermrt" -> Op("match_ERMRT_pattern")
      [] f.pc = "ermrert" -> Op("match_ERMRERT_pattern")
      [] f.pc = "rank" -> Op("rank_query_candidates")
      [] f.pc = "fetch" ->
           [op |-> "get_result",
            arg |-> Truncate(f.ranked_candidates, f.n_top)[f.idx]]

CanFail(f) ==
    \/ f.pc \in {"parse", "link", "target", "content", "rank"}
    \/ f.pc \in {"ert", "ermrt", "ermrert"} /\ f.identified_entities > 0
    \/ f.pc = "fetch" /\ f.idx <= Len(Truncate(f.ranked_candidates, f.n_top))

(* A variant that catches the exception and returns what was collected.   *)
CollaboratorFailsSwallowed(r) ==
    /\ CanFail(call[r])
    /\ call' = [call EXCEPT ![r] =
                  [@ EXCEPT !.pc = "done",
                            !.invoked = Append(@, PendingOp(call[r])),
                            !.error = [op |-> PendingOp(call[r]).op,
                                       at |-> Len(call[r].invoked) + 1],
                            !.returned = <<call[r].translations>>]]
    /\ UNCHANGED <<translatorVars, backend>>

(* The exception leaves translate_and_execute_query.                       *)
CollaboratorFails(r) ==
    /\ CanFail(call[r])
    /\ call' = [call EXCEPT ![r] =
                  [@ EXCEPT !.pc = "failed",
                            !.invoked = Append(@, PendingOp(call[r])),
                            !.error = [op |-> PendingOp(call[r]).op,
                                       at |-> Len(call[r].invoked) + 1]]]
    /\ UNCHANGED <<translatorVars, backend>>

(* The number of queries the log line of lines 187-189 reports for the     *)
(* result-fetch phase.                                                     *)
ReportedFetchQueries(f) == Len(f.translations)

(***************************************************************************)
(* Specifications.                                                         *)
(***************************************************************************)
Step(r, in) ==
    \/ Call(r, in)
    \/ Parse(r)
    \/ LinkEntities(r, in)
    \/ IdentifyTarget(r)
    \/ SetRelationOracle(r)
    \/ SetContentTokens(r)
    \/ MatchERT(r, in)
    \/ MatchERMRT(r, in)
    \/ MatchERMRERT(r, in)
    \/ AfterTranslate(r)
    \/ Rank(r, in)
    \/ FetchResult(r, in)
    \/ Finish(r)
    \/ CollaboratorFails(r)

(* One caller.                                                             *)
Next == Step(1, OneCaller)

Spec == Init /\ [][Next]_vars

(* set_scorer calls on a translator at rest.                               *)
NextScorer ==
    \/ \E s \in Scorers : SetScorer(s)
    \/ \E s \in Scorers : SetScorerRebuildFails(s)

SpecScorer == Init /\ [][NextScorer]_vars

(* Two callers on one translator and one backend.                          *)
NextShared == \E r \in Reqs : Step(r, TwoCallers)

SpecShared == InitFromConfig /\ [][NextShared]_vars

(***************************************************************************)
(* Properties, and the operators they are stated with.                     *)
(***************************************************************************)
IsPrefix(s, t) == Len(s) <= Len(t) /\ s = SubSeq(t, 1, Len(s))

Candidates(entries) == [i \in 1..Len(entries) |-> entries[i].query_candidate]

NonEmptyRows(e) == e.query_result_rows # <<>>

IsMatcherCall(c) ==
    c.op \in {"match_ERT_pattern", "match_ERMRT_pattern", "match_ERMRERT_pattern"}

MatcherCalls(f) == SelectSeq(f.invoked, IsMatcherCall)

(* translate_query has returned its candidate list in this activation.     *)
Translated(f) ==
    \/ f.pc \in {"rank", "fetch", "done"}
    \/ f.pc = "failed" /\ f.error.op \in {"rank_query_candidates", "get_result"}

(* C1: a call with limit n_top >= 0 returns at most n_top entries, and     *)
(* every entry collected or returned has a non-empty (truthy) row set; in  *)
(* particular n_top = 0 returns the empty list.                            *)
C1_AtMostLimitNonEmpty ==
    \A r \in Reqs :
      LET f == call[r] IN
        /\ Len(f.translations) <= f.n_top
        /\ \A i \in 1..Len(f.translations) :
             f.translations[i].query_result_rows # <<>>
        /\ f.pc = "done" =>
             /\ Len(f.returned[1]) <= f.n_top
             /\ \A i \in 1..Len(f.returned[1]) :
                  f.returned[1][i].query_result_rows # <<>>

(* A call has returned with more ranked candidates than the limit, one of  *)
(* the fetched results empty, and one entry returned.                      *)
C1_Witness ==
    \E r \in Reqs :
      /\ call[r].pc = "done"
      /\ call[r].n_top = 2
      /\ Len(call[r].ranked_candidates) > 2
      /\ Len(call[r].returned[1]) = 1

(* C2: get_result is called once, in rank order, on exactly the first      *)
(* min(n_top, number of ranked candidates) ranked candidates, and the      *)
(* returned list is those fetches, in that order, without the ones whose   *)
(* result was empty; an empty result neither fails nor ends the loop.      *)
C2_FirstLimitFilteredInOrder ==
    \A r \in Reqs :
      LET f == call[r]
          n == Min(f.n_top, Len(f.ranked_candidates))
      IN  /\ f.pc = "fetch" =>
               /\ f.idx - 1 <= n
               /\ Candidates(f.fetched) = SubSeq(f.ranked_candidates, 1, f.idx - 1)
          /\ f.pc = "done" =>
               /\ Candidates(f.fetched) = SubSeq(f.ranked_candidates, 1, n)
               /\ f.returned[1] = SelectSeq(f.fetched, NonEmptyRows)
               /\ f.error = NoError

(* A call has returned after an empty result was followed by a non-empty   *)
(* one, with a candidate left beyond the limit.                            *)
C2_Witness ==
    \E r \in Reqs :
      LET f == call[r] IN
        /\ f.pc = "done"
        /\ Len(f.ranked_candidates) > f.n_top
        /\ Len(f.fetched) = 2
        /\ f.fetched[1].query_result_rows = <<>>
        /\ f.fetched[2].query_result_rows # <<>>
        /\ Candidates(f.returned[1]) = <<f.ranked_candidates[2]>>

(* C3: the three matchers are invoked in the order ERT, ERMRT, ERMRERT;    *)
(* the candidate list translate_query returns is ERT matches, then ERMRT   *)
(* matches, then ERMRERT matches, whatever their numbers; and a query      *)
(* without identified entities gets the empty list and no matcher error.   *)
C3_ConcatenationOrder ==
    \A r \in Reqs :
      LET f == call[r] IN
        /\ IsPrefix(MatcherCalls(f),
                    <<Op("match_ERT_pattern"), Op("match_ERMRT_pattern"),
                      Op("match_ERMRERT_pattern")>>)
        /\ Translated(f) =>
             /\ Len(MatcherCalls(f)) = 3
             /\ f.query_candidates =
                  f.ert_matches \o f.ermrt_matches \o f.ermrert_matches
             /\ \A i \in 1..Len(f.query_candidates) :
                  \A j \in 1..Len(f.query_candidates) :
                    (/\ i < j
                     /\ f.query_candidates[i][1] = f.query_candidates[j][1])
                      => f.query_candidates[i][2] < f.query_candidates[j][2]
             /\ f.identified_entities = 0 => f.query_candidates = <<>>
        /\ (f.identified_entities = 0 /\ f.pc = "failed") =>
             ~IsMatcherCall(f.error)

(* translate_query has returned ERT and ERMRERT matches and no ERMRT       *)
(* match.                                                                  *)
C3_Witness ==
    \E r \in Reqs :
      LET f == call[r] IN
        /\ Translated(f)
        /\ f.ert_matches # <<>>
        /\ f.ermrt_matches = <<>>
        /\ f.ermrert_matches # <<>>
        /\ Len(f.query_candidates) = Len(f.ert_matches) + Len(f.ermrert_matches)

(* C4, as stated: after every set_scorer(s) that returns, get_scorer() is  *)
(* s, the entity linker is a different object if the linker class of s     *)
(* differs from that of the previously active scorer, and the same object  *)
(* if the two classes are equal.                                           *)
C4_AsStated ==
    [][(nSet' = nSet + 1 /\ lastOutcome' = "ok") =>
         /\ get_scorer' = lastArg'
         /\ (Params(lastArg').entity_linker_class
               # Params(scorer).entity_linker_class)
              => entity_linker'.id # entity_linker.id
         /\ (Params(lastArg').entity_linker_class
               = Params(scorer).entity_linker_class)
              => entity_linker' = entity_linker]_vars

(* C4, amended: after every set_scorer(s), get_scorer() is s; if the call  *)
(* returned and the linker class of s differs from the class of the entity *)
(* linker held before the call, the held linker is a different object; if *)
(* the class of s is the class of the linker held before the call, or the  *)
(* rebuild raised, the held linker is the same object as before.           *)
C4_RebuildIffHeldClassDiffers ==
    [][(nSet' = nSet + 1) =>
         /\ get_scorer' = lastArg'
         /\ (/\ lastOutcome' = "ok"
             /\ Params(lastArg').entity_linker_class # entity_linker.type)
              => entity_linker'.id # entity_linker.id
         /\ (\/ lastOutcome' # "ok"
             \/ Params(lastArg').entity_linker_class = entity_linker.type)
              => entity_linker' = entity_linker]_vars

(* A linker rebuilt by an earlier set_scorer call has been kept by the     *)
(* last call, which set a different scorer of the same linker class.       *)
C4_Witness ==
    /\ nSet >= 2
    /\ lastOutcome = "ok"
    /\ entity_linker.id >= 1
    /\ entity_linker.id < nSet
    /\ get_scorer = lastArg

(* C5: in every state, the parameters last given to the candidate          *)
(* extender are those of the active scorer.                                *)
C5_ExtenderHasActiveParams == extender_params = Params(get_scorer)

(* C6, as stated: the Query's fields are assigned in the order tokens,     *)
(* identified entities, target type, content tokens, relation oracle, each *)
(* once, all of them before the first pattern-matching call.               *)
C6_AsStated ==
    \A r \in Reqs :
      LET f == call[r]
          order == <<"tokens", "identified_entities", "target_type",
                     "content_tokens", "relation_oracle">>
      IN  /\ IsPrefix(f.assigned, order)
          /\ MatcherCalls(f) # <<>> => f.assigned = order

(* C6, amended: the Query's fields are assigned in the order tokens,       *)
(* identified entities, target type, relation oracle, content tokens, each *)
(* once, all of them before the first pattern-matching call, and none once *)
(* candidate generation has begun.                                         *)
C6_AssignmentOrder ==
    \A r \in Reqs :
      LET f == call[r]
          order == <<"tokens", "identified_entities", "target_type",
                     "relation_oracle", "content_tokens">>
      IN  /\ IsPrefix(f.assigned, order)
          /\ (MatcherCalls(f) # <<>> \/ f.pc \in {"ert", "done"})
               => f.assigned = order

(* Candidate generation has begun, with the five fields assigned.          *)
C6_Witness ==
    \E r \in Reqs :
      /\ Len(MatcherCalls(call[r])) = 2
      /\ Len(call[r].assigned) = 5
      /\ call[r].assigned[4] = "relation_oracle"

(* C7: when a collaborator has failed, the call has ended and returned     *)
(* nothing, the failing operation is the last one invoked (no later stage  *)
(* runs) and it was invoked once (no retry).                               *)
C7_FailurePropagates ==
    \A r \in Reqs :
      LET f == call[r] IN
        /\ f.pc = "failed" <=> f.error # NoError
        /\ f.error # NoError =>
             /\ f.returned = <<>>
             /\ f.error.at = Len(f.invoked)
             /\ f.invoked[f.error.at].op = f.error.op
             /\ Cardinality({i \in 1..Len(f.invoked) :
                               f.invoked[i] = f.invoked[f.error.at]}) = 1

(* A get_result call has failed after an earlier one had delivered rows.   *)
C7_Witness ==
    \E r \in Reqs :
      /\ call[r].pc = "failed"
      /\ call[r].error.op = "get_result"
      /\ call[r].translations # <<>>
      /\ call[r].returned = <<>>

(* C8: with one caller, a call that has returned reports as the            *)
(* translation phase's query count the queries issued during               *)
(* translate_query, and as the result-fetch phase's query count the        *)
(* queries issued while fetching results (soft misses included), the       *)
(* ranker's queries being counted in neither.                              *)
C8_PhaseQueryCounts ==
    \A r \in Reqs :
      call[r].pc = "done" =>
        /\ call[r].num_sparql_queries = call[r].own.translate
        /\ ReportedFetchQueries(call[r]) = call[r].own.fetch

(* C9: with two callers on one backend, the query count and backend time a *)
(* call computes for a phase are those of the queries the call itself      *)
(* issued in that phase.                                                   *)
C9_PerRequestCounters ==
    \A r \in Reqs :
      LET f == call[r] IN
        /\ f.pc \in {"rank", "fetch", "done"} =>
             /\ f.num_sparql_queries = f.own.translate
             /\ f.translation_time = f.ownTime.translate * 1000
        /\ f.pc = "done" => f.result_fetch_time = f.ownTime.fetch * 1000

(* C10: no call fails on a division by zero, whatever the number of        *)
(* backend queries, candidates and non-empty translations.                 *)
C10_NoZeroDivision ==
    \A r \in Reqs : call[r].error.op # "ZeroDivisionError"

(* A call has returned with no backend query issued, no candidate          *)
(* generated and no translation.                                           *)
C10_Witness ==
    \E r \in Reqs :
      /\ call[r].pc = "done"
      /\ call[r].num_sparql_queries = 0
      /\ call[r].query_candidates = <<>>
      /\ call[r].returned = << <<>> >>
      /\ backend.num_queries_executed = 0

====
